---- MODULE Spec2Model ----
(***************************************************************************)
(* Verification model of the Ollama/MCP client core:                       *)
(*   - OllamaWithMCP  (src/ollama_integration.js): chat(), isToolCall(),   *)
(*     parseToolCall(), the <think> stripping and the history cap;         *)
(*   - MCPManager     (src/unnamed/part_002): connection, tool discovery,  *)
(*     callTool(), callToolOnServer(), close().                            *)
(*                                                                         *)
(* Texts are sequences of one-character strings.  Indices of the text      *)
(* functions are 0-based as in the JavaScript source; -1 means "not found".*)
(***************************************************************************)
EXTENDS Integers, Sequences, FiniteSets, TLC

VARIABLES
    \* ---- text functions (isToolCall / parseToolCall / <think> stripping)
    text,       \* the input text handed to the text functions
    meta,       \* how the input text was put together (ghost)
    det,        \* isToolCall(text): [done, again, startIndex, endIndex, v, err]
    ext,        \* parseToolCall(text): [done, ok, v, err]
    cln,        \* text.replace(/<think>...<\/think>/g,'').trim(): [done, v]
    \* ---- MCPManager
    catalog,    \* what each configured backend advertises (environment)
    mpc,        \* position of initializeServers(): [phase, i]
    clients,    \* this.clients: connected server names, in insertion order
    tools,      \* this.tools: entries [name, serverName], in insertion order
    resources,  \* this.resources: entries [name, serverName] keyed by uri, in insertion order
    events,     \* the requests the manager made of its backends, with their results (ghost)
    discovered, \* servers whose listTools() answered, in order (ghost)
    last,       \* outcome of the last callTool / callToolOnServer
    \* ---- OllamaWithMCP
    conversationHistory, \* this.conversationHistory: turns [role, content]
    call,       \* per chat() invocation: its position and its locals
    outcome,    \* per chat() invocation: what the call returned or threw
    trace,      \* per chat() invocation: the requests it sent, in order (ghost)
    started,    \* number of chat() calls made so far (ghost)
    failed,     \* number of them that ended in an error (ghost)
    okRun,      \* successful calls since the history was empty, -1 once one failed (ghost)
    log,        \* every turn appended since the history was empty (ghost)
    \* ---- web GUI
    toolRequest, \* the request of POST /api/tool in flight: [pc, server]
    reconfig    \* the handler of POST /api/config with a configPath: [pc, n]

textVars == <<text, meta, det, ext, cln>>
regVars  == <<catalog, mpc, clients, tools, resources, events, discovered, last>>
chatVars == <<conversationHistory, call, outcome, trace, started, failed, okRun, log>>
httpVars == <<toolRequest, reconfig>>
vars     == <<textVars, regVars, chatVars, httpVars>>

\* what the actions of one component leave alone
notText == <<regVars, chatVars, httpVars>>
notReg  == <<textVars, chatVars, httpVars>>
notChat == <<textVars, regVars, httpVars>>
notHttp == <<textVars, regVars, chatVars>>

(***************************************************************************)
(* Characters and literal strings of the source                            *)
(***************************************************************************)
QT == "\""
NL == "\n"
SP == " "
LB == "{"
RB == "}"

Q_ACTION    == <<QT, "a", "c", "t", "i", "o", "n", QT>>
Q_TOOL_CALL == <<QT, "t", "o", "o", "l", "_", "c", "a", "l", "l", QT>>
S_ACTION    == <<"a", "c", "t", "i", "o", "n">>
S_TOOL_CALL == <<"t", "o", "o", "l", "_", "c", "a", "l", "l">>
S_TOOL      == <<"t", "o", "o", "l">>
S_ARGS      == <<"a", "r", "g", "s">>

\* '{"action":"tool_call"'
ANCHOR_COMPACT == <<LB>> \o Q_ACTION \o <<":">> \o Q_TOOL_CALL
\* '{ "action": "tool_call"'
ANCHOR_SPACED  == <<LB, SP>> \o Q_ACTION \o <<":", SP>> \o Q_TOOL_CALL
\* '{\n  "action": "tool_call"'
ANCHOR_PRETTY  == <<LB, NL, SP, SP>> \o Q_ACTION \o <<":", SP>> \o Q_TOOL_CALL

THINK_OPEN  == <<"<", "t", "h", "i", "n", "k", ">">>
THINK_CLOSE == <<"<", "/", "t", "h", "i", "n", "k", ">">>

(***************************************************************************)
(* String primitives of JavaScript used by the source                      *)
(***************************************************************************)
\* text[i]: the character at 0-based index i, "" (undefined) out of range
At(s, i) == IF i >= 0 /\ i < Len(s) THEN s[i + 1] ELSE ""

\* s.substring(a, b) for 0 <= a <= b
substring(s, a, b) == SubSeq(s, a + 1, IF b > Len(s) THEN Len(s) ELSE b)

\* s.indexOf(pat, i) for i >= 0: the least index from i on where pat occurs
indexOfFrom(s, pat, i) ==
    LET hits == { k \in i..(Len(s) - Len(pat)) : SubSeq(s, k + 1, k + Len(pat)) = pat }
    IN  IF hits = {} THEN -1 ELSE CHOOSE k \in hits : \A m \in hits : k <= m

\* s.indexOf(pat)
indexOf(s, pat) == indexOfFrom(s, pat, 0)

IsSpace(c) == c \in {SP, NL}

RECURSIVE trimStart(_)
trimStart(s) == IF s # <<>> /\ IsSpace(Head(s)) THEN trimStart(Tail(s)) ELSE s

RECURSIVE trimEnd(_)
trimEnd(s) ==
    IF s # <<>> /\ IsSpace(s[Len(s)]) THEN trimEnd(SubSeq(s, 1, Len(s) - 1)) ELSE s

\* s.trim()
trim(s) == trimEnd(trimStart(s))

startsWith(s, c) == s # <<>> /\ s[1] = c
endsWith(s, c)   == s # <<>> /\ s[Len(s)] = c

(***************************************************************************)
(* JavaScript values: every value is a record of the same shape            *)
(*   t  : "undefined" | "null" | "true" | "false" | "number" | "string"    *)
(*        | "object"                                                       *)
(*   s  : the characters of a string / the digits of a number              *)
(*   kv : the properties of an object, <<key, value>> in insertion order   *)
(***************************************************************************)
JUndef   == [t |-> "undefined", s |-> <<>>, kv |-> <<>>]
JNull    == [t |-> "null",      s |-> <<>>, kv |-> <<>>]
JTrue    == [t |-> "true",      s |-> <<>>, kv |-> <<>>]
JFalse   == [t |-> "false",     s |-> <<>>, kv |-> <<>>]
JNum(d)  == [t |-> "number",    s |-> d,    kv |-> <<>>]
JStr(s)  == [t |-> "string",    s |-> s,    kv |-> <<>>]
JObj(kv) == [t |-> "object",    s |-> <<>>, kv |-> kv]

\* ToBoolean(v)
Truthy(v) ==
    CASE v.t = "object" -> TRUE
      [] v.t = "true"   -> TRUE
      [] v.t = "string" -> v.s # <<>>
      [] v.t = "number" -> v.s # <<"0">>
      [] OTHER          -> FALSE

HasKey(kv, k) == \E n \in 1..Len(kv) : kv[n][1] = k

\* obj[k] = v on a plain object: an existing key keeps its place
ObjSet(kv, k, v) ==
    IF HasKey(kv, k)
    THEN [n \in 1..Len(kv) |-> IF kv[n][1] = k THEN <<k, v>> ELSE kv[n]]
    ELSE Append(kv, <<k, v>>)

\* obj.k : the property value, undefined when absent
Get(obj, k) ==
    IF obj.t = "object" /\ HasKey(obj.kv, k)
    THEN (obj.kv[CHOOSE n \in 1..Len(obj.kv) : obj.kv[n][1] = k])[2]
    ELSE JUndef

(***************************************************************************)
(* JSON.parse on the modelled alphabet: objects, strings (no escapes, no   *)
(* raw control character), true / false / null, non-negative integers,     *)
(* JSON whitespace.  A result is [ok, v, i]: i is the index after the      *)
(* value.  ok = FALSE stands for the SyntaxError that JSON.parse throws.   *)
(***************************************************************************)
PFail == [ok |-> FALSE, v |-> JUndef, i |-> 0]
POk(v, i) == [ok |-> TRUE, v |-> v, i |-> i]

IsDigit(c) == c \in {"0", "1", "2", "3", "4", "5", "6", "7", "8", "9"}

RECURSIVE skipWs(_, _)
skipWs(s, i) == IF IsSpace(At(s, i)) THEN skipWs(s, i + 1) ELSE i

RECURSIVE digitsEnd(_, _)
digitsEnd(s, i) == IF IsDigit(At(s, i)) THEN digitsEnd(s, i + 1) ELSE i

\* s[i] is the opening quote
parseString(s, i) ==
    LET j == indexOfFrom(s, <<QT>>, i + 1)
    IN  IF j = -1 THEN PFail
        ELSE IF \E n \in (i + 2)..j : s[n] = NL THEN PFail
        ELSE POk(JStr(SubSeq(s, i + 2, j)), j + 1)

parseNumber(s, i) ==
    IF At(s, i) = "0" THEN POk(JNum(<<"0">>), i + 1)
    ELSE POk(JNum(SubSeq(s, i + 1, digitsEnd(s, i))), digitsEnd(s, i))

parseLiteral(s, i) ==
    IF substring(s, i, i + 4) = <<"t", "r", "u", "e">> THEN POk(JTrue, i + 4)
    ELSE IF substring(s, i, i + 5) = <<"f", "a", "l", "s", "e">> THEN POk(JFalse, i + 5)
    ELSE IF substring(s, i, i + 4) = <<"n", "u", "l", "l">> THEN POk(JNull, i + 4)
    ELSE PFail

RECURSIVE parseValue(_, _)
RECURSIVE parseMembers(_, _, _)

\* i is the index of the first character of a member (its key's quote)
parseMembers(s, i, acc) ==
    IF At(s, i) # QT THEN PFail
    ELSE
      LET k == parseString(s, i)
      IN  IF ~k.ok THEN PFail
          ELSE
            LET c == skipWs(s, k.i)
            IN  IF At(s, c) # ":" THEN PFail
                ELSE
                  LET v == parseValue(s, c + 1)
                  IN  IF ~v.ok THEN PFail
                      ELSE
                        LET e    == skipWs(s, v.i)
                            acc2 == ObjSet(acc, k.v.s, v.v)
                        IN  IF At(s, e) = "," THEN parseMembers(s, skipWs(s, e + 1), acc2)
                            ELSE IF At(s, e) = RB THEN POk(JObj(acc2), e + 1)
                            ELSE PFail

parseValue(s, i0) ==
    LET i == skipWs(s, i0)
        c == At(s, i)
    IN  IF c = LB
        THEN LET j == skipWs(s, i + 1)
             IN  IF At(s, j) = RB THEN POk(JObj(<<>>), j + 1)
                 ELSE parseMembers(s, j, <<>>)
        ELSE IF c = QT THEN parseString(s, i)
        ELSE IF IsDigit(c) THEN parseNumber(s, i)
        ELSE parseLiteral(s, i)

\* JSON.parse(s): [ok, v]
JSONparse(s) ==
    LET r == parseValue(s, 0)
    IN  IF r.ok /\ skipWs(s, r.i) = Len(s)
        THEN [ok |-> TRUE, v |-> r.v]
        ELSE [ok |-> FALSE, v |-> JUndef]

(***************************************************************************)
(* OllamaWithMCP.isToolCall / parseToolCall                                *)
(***************************************************************************)
\* backtrack that assigns startIndex before testing for the brace
RECURSIVE backtrackNoBrace(_, _)
backtrackNoBrace(s, i) ==
    IF At(s, i) = LB \/ i <= 0 THEN i
    ELSE backtrackNoBrace(s, i - 1)

\* for (let i = actionIndex; i >= 0; i--) if (text[i] === '{') { startIndex = i; break; }
RECURSIVE backtrack(_, _)
backtrack(s, i) ==
    IF i < 0 THEN -1
    ELSE IF At(s, i) = LB THEN i
    ELSE backtrack(s, i - 1)

\* a search that keeps a position between calls, as a sticky pattern does: it
\* resumes after the endIndex of the call before
findStartResuming(s) ==
    LET from == IF det.done THEN det.endIndex + 1 ELSE 0
        a1 == indexOfFrom(s, ANCHOR_COMPACT, from)
        a2 == indexOfFrom(s, ANCHOR_SPACED, from)
        a3 == indexOfFrom(s, ANCHOR_PRETTY, from)
    IN  IF a1 # -1 THEN a1
        ELSE IF a2 # -1 THEN a2
        ELSE a3

\* the search for startIndex shared by isToolCall and parseToolCall
findStart(s) ==
    LET a1 == indexOf(s, ANCHOR_COMPACT)
        a2 == indexOf(s, ANCHOR_SPACED)
        a3 == indexOf(s, ANCHOR_PRETTY)
        actionIndex   == indexOf(s, Q_ACTION)
        toolCallIndex == indexOf(s, Q_TOOL_CALL)
    IN  IF a1 # -1 THEN a1
        ELSE IF a2 # -1 THEN a2
        ELSE IF a3 # -1 THEN a3
        ELSE IF actionIndex > -1 /\ toolCallIndex > -1 THEN backtrack(s, actionIndex)
        ELSE -1

\* braceCount after the loop body ran at index k, the scan having started at
\* index i with the count c
countAt(s, i, c, k) ==
    c + Cardinality({ m \in i..k : At(s, m) = LB })
      - Cardinality({ m \in i..k : At(s, m) = RB })

\* the scan without the depth count: it ends at the first closing brace
scanFromFirstClose(s, i, braceCount) == indexOfFrom(s, <<RB>>, i)

\* the scan without its break: endIndex is the last index at depth zero
scanFromNoBreak(s, i, braceCount) ==
    LET hits == { k \in i..(Len(s) - 1) : countAt(s, i, braceCount, k) = 0 }
    IN  IF hits = {} THEN -1 ELSE CHOOSE k \in hits : \A m \in hits : m <= k

\* the brace-counting loop from index i, braceCount so far: the first index
\* at which the count is zero after the character was counted, -1 if none
scanFrom(s, i, braceCount) ==
    LET hits == { k \in i..(Len(s) - 1) : countAt(s, i, braceCount, k) = 0 }
    IN  IF hits = {} THEN -1 ELSE CHOOSE k \in hits : \A m \in hits : k <= m

\* endIndex of the forward balanced-brace scan that starts at startIndex
scanEnd(s, startIndex) == scanFrom(s, startIndex, 0)

\* parsed.action === 'tool_call' && parsed.tool && parsed.args !== undefined
classify(parsed) ==
    IF Get(parsed, S_ACTION) # JStr(S_TOOL_CALL) THEN JFalse
    ELSE IF ~Truthy(Get(parsed, S_TOOL)) THEN Get(parsed, S_TOOL)
    ELSE IF Get(parsed, S_ARGS) # JUndef THEN JTrue
    ELSE JFalse

ERR_NONE   == "none"
\* the message of the SyntaxError thrown by JSON.parse
ERR_SYNTAX == "SyntaxError"
ERR_PARSE  == "Could not parse tool call"

Returned(v) == [ok |-> TRUE, v |-> v, err |-> ERR_NONE]
Thrown(msg) == [ok |-> FALSE, v |-> JUndef, err |-> msg]

\* the whole-message fallback outside any try block: the SyntaxError of
\* JSON.parse leaves the function
wholeMessageUncaught(trimmed) ==
    IF startsWith(trimmed, LB) /\ endsWith(trimmed, RB)
    THEN IF JSONparse(trimmed).ok THEN Returned(classify(JSONparse(trimmed).v))
         ELSE Thrown(ERR_SYNTAX)
    ELSE Returned(JFalse)

\* the whole-message fallback of isToolCall, inside the outer try: a
\* SyntaxError of JSON.parse is caught and the function returns false
wholeMessage(trimmed) ==
    IF startsWith(trimmed, LB) /\ endsWith(trimmed, RB)
    THEN IF JSONparse(trimmed).ok THEN Returned(classify(JSONparse(trimmed).v))
         ELSE Returned(JFalse)
    ELSE Returned(JFalse)

\* isToolCall(text) with its locals: [startIndex, endIndex, v, err]
isToolCallRun(s) ==
    LET startIndex == findStart(s)
        endIndex   == IF startIndex > -1 THEN scanEnd(s, startIndex) ELSE -1
        scanned    == IF endIndex > -1
                      THEN JSONparse(substring(s, startIndex, endIndex + 1))
                      ELSE [ok |-> FALSE, v |-> JUndef]
        r == IF scanned.ok THEN Returned(classify(scanned.v))
             ELSE wholeMessage(trim(s))
    IN  [startIndex |-> startIndex, endIndex |-> endIndex, v |-> r.v, err |-> r.err]

isToolCall(s) == isToolCallRun(s).v

\* parseToolCall(text) of src/ollama_integration.js: [ok, v, err]
parseToolCall(s) ==
    LET trimmed    == trim(s)
        whole      == JSONparse(trimmed)
        startIndex == findStart(s)
        endIndex   == IF startIndex > -1 THEN scanEnd(s, startIndex) ELSE -1
        scanned    == JSONparse(substring(s, startIndex, endIndex + 1))
    IN  IF startsWith(trimmed, LB) /\ endsWith(trimmed, RB)
        THEN IF whole.ok THEN Returned(whole.v) ELSE Thrown(ERR_SYNTAX)
        ELSE IF startIndex > -1 /\ endIndex > -1
        THEN IF scanned.ok THEN Returned(scanned.v) ELSE Thrown(ERR_SYNTAX)
        ELSE Thrown(ERR_PARSE)

\* the replace without the g flag: only the first block is removed
removeThinkFirst(s) ==
    LET a == indexOf(s, THINK_OPEN)
        b == IF a = -1 THEN -1 ELSE indexOfFrom(s, THINK_CLOSE, a + Len(THINK_OPEN))
    IN  IF b = -1 THEN s
        ELSE SubSeq(s, 1, a) \o SubSeq(s, b + Len(THINK_CLOSE) + 1, Len(s))

\* s.replace(/<think>[\s\S]*?<\/think>/g, '')
RECURSIVE removeThink(_)
removeThink(s) ==
    LET a == indexOf(s, THINK_OPEN)
        b == IF a = -1 THEN -1 ELSE indexOfFrom(s, THINK_CLOSE, a + Len(THINK_OPEN))
    IN  IF b = -1 THEN s
        ELSE SubSeq(s, 1, a) \o removeThink(SubSeq(s, b + Len(THINK_CLOSE) + 1, Len(s)))

\* the cleanedResponse of chat()
stripThink(s) == trim(removeThink(s))

(***************************************************************************)
(* Input texts of the text functions                                       *)
(***************************************************************************)
\* nesting depth of the generated args objects
MaxDepth == 3
\* number of tokens of a generated token text
MaxTokens == 3
\* number of tokens of a generated reasoning-markup text
MaxThinkTokens == 4

RECURSIVE concat(_)
concat(ss) == IF ss = <<>> THEN <<>> ELSE Head(ss) \o concat(Tail(ss))

RECURSIVE stringify(_)
RECURSIVE stringifyMembers(_)
stringifyMembers(kv) ==
    IF kv = <<>> THEN <<>>
    ELSE <<QT>> \o kv[1][1] \o <<QT, ":">> \o stringify(kv[1][2])
         \o (IF Len(kv) > 1 THEN <<",">> ELSE <<>>) \o stringifyMembers(Tail(kv))

\* JSON.stringify(v): the compact form
stringify(v) ==
    CASE v.t = "object" -> <<LB>> \o stringifyMembers(v.kv) \o <<RB>>
      [] v.t = "string" -> <<QT>> \o v.s \o <<QT>>
      [] v.t = "number" -> v.s
      [] v.t = "true"   -> <<"t", "r", "u", "e">>
      [] v.t = "false"  -> <<"f", "a", "l", "s", "e">>
      [] OTHER          -> <<"n", "u", "l", "l">>

\* {"action":"tool_call","tool":<tool>,"args":<args>}
Directive(tool, args) ==
    JObj(<< <<S_ACTION, JStr(S_TOOL_CALL)>>, <<S_TOOL, JStr(tool)>>, <<S_ARGS, args>> >>)

RECURSIVE Nest(_, _)
Nest(d, leaf) == IF d = 0 THEN leaf ELSE JObj(<< << <<"f">>, Nest(d - 1, leaf) >> >>)

\* innermost objects: {}, {"n":"J"}, {"n":"}"}, {"n":"{"}
Leaves ==
    { JObj(<<>>),
      JObj(<< << <<"n">>, JStr(<<"J">>) >> >>),
      JObj(<< << <<"n">>, JStr(<<RB>>) >> >>),
      JObj(<< << <<"n">>, JStr(<<LB>>) >> >>) }

ArgsValues  == { Nest(d, leaf) : d \in 0..MaxDepth, leaf \in Leaves }
ToolNames   == { <<"w">>, <<"l", "o", "g">> }
Prefixes    == { <<>>, <<SP>>, <<"H", "i", SP>> }
Suffixes    == { <<>>, <<NL>>, <<SP, "o", "k">> }

\* ,"tool":"w","args":{}
MEMBERS == <<",", QT>> \o S_TOOL \o <<QT, ":", QT, "w", QT, ",", QT>> \o S_ARGS
           \o <<QT, ":", LB, RB>>

Tokens      == { <<LB>>, <<RB>>, Q_ACTION, <<":">>, Q_TOOL_CALL, <<SP>>, <<"x">>, MEMBERS }
\* the two markers, text, white space and the two halves of a start marker
ThinkTokens == { THINK_OPEN, THINK_CLOSE, <<"r">>, <<SP>>, <<"<", "t", "h">>,
                 <<"i", "n", "k", ">">> }

SeqsUpTo(S, n) == UNION { [1..k -> S] : k \in 0..n }

NoMeta == [kind |-> "none", pre |-> <<>>, suf |-> <<>>, tool |-> <<>>,
           args |-> JUndef, toks |-> <<>>, order |-> <<>>]

DirectiveInputs ==
    { [text |-> p \o stringify(Directive(t, a)) \o s,
       meta |-> [NoMeta EXCEPT !.kind = "directive", !.pre = p, !.suf = s,
                               !.tool = t, !.args = a]] :
        p \in Prefixes, t \in ToolNames, a \in ArgsValues, s \in Suffixes }

TokenInputs ==
    { [text |-> concat(ts), meta |-> [NoMeta EXCEPT !.kind = "tokens", !.toks = ts]] :
        ts \in SeqsUpTo(Tokens, MaxTokens) }

ThinkInputs ==
    { [text |-> concat(ts), meta |-> [NoMeta EXCEPT !.kind = "think", !.toks = ts]] :
        ts \in SeqsUpTo(ThinkTokens, MaxThinkTokens) }

\* the orders in which the three keys of a directive can be written
KeyOrders == { o \in [1..3 -> 1..3] : \A i, j \in 1..3 : i # j => o[i] # o[j] }

\* the directive object with its members written in the order o
DirectiveIn(o, tool, args) == JObj([i \in 1..3 |-> Directive(tool, args).kv[o[i]]])

\* a reply that is nothing but a directive, its keys in any order, with or
\* without white space around it
PermutedInputs ==
    { [text |-> p \o stringify(DirectiveIn(o, t, a)) \o s,
       meta |-> [NoMeta EXCEPT !.kind = "permuted", !.pre = p, !.suf = s,
                               !.tool = t, !.args = a, !.order = o]] :
        o \in KeyOrders, p \in { <<>>, <<SP>> }, t \in ToolNames, a \in ArgsValues,
        s \in { <<>>, <<NL>> } }

\* an optional member of an object: nothing when the value is undefined
Member(k, v) == IF v = JUndef THEN <<>> ELSE << <<k, v>> >>

\* objects that may lack a part of a directive: any action, the tool missing,
\* empty, null, zero or a name, the args missing, null or an empty mapping
LooseObjects ==
    { JObj(<< <<S_ACTION, JStr(a)>> >> \o Member(S_TOOL, t) \o Member(S_ARGS, g)) :
        a \in { S_TOOL_CALL, <<"x">> },
        t \in { JUndef, JNull, JNum(<<"0">>), JStr(<<>>), JStr(<<"w">>) },
        g \in { JUndef, JNull, JObj(<<>>) } }

LooseInputs ==
    { [text |-> p \o stringify(o),
       meta |-> [NoMeta EXCEPT !.kind = "loose", !.pre = p,
                               !.args = Get(o, S_ARGS)]] :
        o \in LooseObjects, p \in { <<>>, <<"H", "i", SP>> } }

\* the three ways of writing a directive that the anchors look for
Spacings == { "compact", "spaced", "pretty" }

\* the directive for a tool with empty args, written compact, with one space
\* after each separator, or over several lines with an indentation of two
Written(spacing, tool) ==
    LET open  == CASE spacing = "compact" -> ANCHOR_COMPACT
                   [] spacing = "spaced"  -> ANCHOR_SPACED
                   [] OTHER               -> ANCHOR_PRETTY
        sep   == CASE spacing = "compact" -> <<",">>
                   [] spacing = "spaced"  -> <<",", SP>>
                   [] OTHER               -> <<",", NL, SP, SP>>
        colon == IF spacing = "compact" THEN <<":">> ELSE <<":", SP>>
        close == CASE spacing = "compact" -> <<RB>>
                   [] spacing = "spaced"  -> <<SP, RB>>
                   [] OTHER               -> <<NL, RB>>
    IN  open \o sep \o <<QT>> \o S_TOOL \o <<QT>> \o colon \o <<QT>> \o tool \o <<QT>>
        \o sep \o <<QT>> \o S_ARGS \o <<QT>> \o colon \o <<LB, RB>> \o close

\* a reply with two directives, for two different tools, each in any spacing
TwoDirectiveInputs ==
    { [text |-> p \o Written(v1, t1) \o <<SP>> \o Written(v2, t2) \o s,
       meta |-> [NoMeta EXCEPT !.kind = "two", !.pre = p, !.suf = s, !.tool = t1,
                               !.args = JObj(<<>>),
                               !.toks = <<Written(v1, t1), Written(v2, t2)>>]] :
        p \in { <<>>, <<"H", "i", SP>> }, v1 \in Spacings, v2 \in Spacings,
        t1 \in ToolNames, t2 \in ToolNames, s \in { <<>>, <<SP, "o", "k">> } }

\* a reply that is an object holding a directive as the value of a key
WrappedInputs ==
    { [text |-> stringify(JObj(<< << <<"a">>, Directive(t, a) >> >>)),
       meta |-> [NoMeta EXCEPT !.kind = "wrapped", !.tool = t, !.args = a]] :
        t \in ToolNames, a \in Leaves }

TextInputs == DirectiveInputs \cup TokenInputs \cup ThinkInputs \cup PermutedInputs
              \cup LooseInputs \cup TwoDirectiveInputs \cup WrappedInputs

(***************************************************************************)
(* The text functions applied to an input text                             *)
(***************************************************************************)
NotRun == [done |-> FALSE]

TextIdle ==
    /\ det = NotRun
    /\ ext = NotRun
    /\ cln = NotRun

\* isToolCall(text), the first call and a second call on the same text
Detect ==
    /\ IF det.done THEN ~det.again ELSE TRUE
    /\ det' = [done |-> TRUE, again |-> det.done] @@ isToolCallRun(text)
    /\ UNCHANGED <<text, meta, ext, cln, notText>>

\* parseToolCall(text)
Extract ==
    /\ ~ext.done
    /\ ext' = [done |-> TRUE] @@ parseToolCall(text)
    /\ UNCHANGED <<text, meta, det, cln, notText>>

\* text.replace(/<think>[\s\S]*?<\/think>/g, '').trim()
Clean ==
    /\ ~cln.done
    /\ cln' = [done |-> TRUE, v |-> stripThink(text)]
    /\ UNCHANGED <<text, meta, det, ext, notText>>

TextNext == Detect \/ Extract \/ Clean

(***************************************************************************)
(* MCPManager                                                              *)
(***************************************************************************)
T_WEATHER == <<"w">>
T_LOG     == <<"l", "o", "g">>

\* Object.entries(mcpServers): the configured backends, in configuration order
ConfiguredServers == <<"backendA", "backendB", "backendC">>
ServerNames == { ConfiguredServers[n] : n \in 1..Len(ConfiguredServers) }

\* the catalogs a backend may advertise
Catalogs == { <<>>, <<T_WEATHER>>, <<T_LOG>>, <<T_WEATHER, T_LOG>> }

\* found / sentTo: whether a tool was resolved and the backend the request went to;
\* seen: how many backends had been discovered when the call was made (ghost)
NoCall == [op |-> "none", server |-> "", name |-> <<>>, found |-> FALSE, sentTo |-> "",
           seen |-> 0]

\* a request made of a backend: connect, listTools, listResources or close;
\* result "ok", "unsupported" (error code -32601) or "error"; items: the
\* names or uris an "ok" listing returned
Event(op, server, result, items) ==
    [op |-> op, server |-> server, result |-> result, items |-> items]

\* the uri a backend may list as a resource, and the listings it may return
U_DOC == <<"d", "o", "c">>
ResourceLists == { <<>>, <<U_DOC>> }

\* constructor
RegistryNew ==
    /\ mpc = [phase |-> "new", i |-> 1]
    /\ clients = <<>>
    /\ tools = <<>>
    /\ resources = <<>>
    /\ events = <<>>
    /\ discovered = <<>>
    /\ last = NoCall

MapHas(m, name) == \E n \in 1..Len(m) : m[n].name = name

\* Map.prototype.get: the entry, or a record with serverName "" for undefined
MapGet(m, name) ==
    IF MapHas(m, name)
    THEN m[CHOOSE n \in 1..Len(m) : m[n].name = name]
    ELSE [name |-> name, serverName |-> ""]

\* a registration that keeps the first owner of a name
MapSetKeepFirst(m, name, serverName) ==
    IF MapHas(m, name) THEN m
    ELSE Append(m, [name |-> name, serverName |-> serverName])

\* Map.prototype.set: replaces the value of an existing key, else appends
MapSet(m, name, serverName) ==
    LET e == [name |-> name, serverName |-> serverName]
    IN  IF MapHas(m, name)
        THEN [n \in 1..Len(m) |-> IF m[n].name = name THEN e ELSE m[n]]
        ELSE Append(m, e)

\* for (const tool of tools) this.tools.set(tool.name, {client, serverName, tool})
RECURSIVE SetAll(_, _, _)
SetAll(m, names, serverName) ==
    IF names = <<>> THEN m
    ELSE SetAll(MapSet(m, Head(names), serverName), Tail(names), serverName)

\* initializeServers() starts its loop over the configured servers
InitializeServers ==
    /\ mpc.phase = "new"
    /\ mpc' = [phase |-> "connecting", i |-> 1]
    /\ UNCHANGED <<catalog, clients, tools, resources, events, discovered, last, notReg>>

AfterConnect(i) ==
    IF i < Len(ConfiguredServers)
    THEN [phase |-> "connecting", i |-> i + 1]
    ELSE [phase |-> "loadingTools", i |-> 1]

\* connectServer(name, config): client.connect() resolves
ConnectOk ==
    /\ mpc.phase = "connecting"
    /\ clients' = Append(clients, ConfiguredServers[mpc.i])
    /\ events' = Append(events, Event("connect", ConfiguredServers[mpc.i], "ok", <<>>))
    /\ mpc' = AfterConnect(mpc.i)
    /\ UNCHANGED <<catalog, tools, resources, discovered, last, notReg>>

\* a failed connection that registers its client all the same
ConnectFailsRegisters ==
    /\ mpc.phase = "connecting"
    /\ clients' = Append(clients, ConfiguredServers[mpc.i])
    /\ events' = Append(events, Event("connect", ConfiguredServers[mpc.i], "error", <<>>))
    /\ mpc' = AfterConnect(mpc.i)
    /\ UNCHANGED <<catalog, tools, resources, discovered, last, notReg>>

\* connectServer(name, config): the connection fails, logged and skipped
ConnectFails ==
    /\ mpc.phase = "connecting"
    /\ events' = Append(events, Event("connect", ConfiguredServers[mpc.i], "error", <<>>))
    /\ mpc' = AfterConnect(mpc.i)
    /\ UNCHANGED <<catalog, clients, tools, resources, discovered, last, notReg>>

\* the next client of loadAllTools(), or on to loadAllResources()
AfterList(i) ==
    IF i < Len(clients)
    THEN [phase |-> "loadingTools", i |-> i + 1]
    ELSE [phase |-> "loadingResources", i |-> 1]

\* loadAllTools() and loadAllResources() with no client to ask
LoadToolsDone ==
    /\ mpc.phase = "loadingTools"
    /\ mpc.i > Len(clients)
    /\ mpc' = [phase |-> "ready", i |-> 1]
    /\ UNCHANGED <<catalog, clients, tools, resources, events, discovered, last, notReg>>

\* loadAllTools(): listTools() of the next client answers
ListToolsOk ==
    /\ mpc.phase = "loadingTools"
    /\ mpc.i <= Len(clients)
    /\ tools' = SetAll(tools, catalog[clients[mpc.i]], clients[mpc.i])
    /\ discovered' = Append(discovered, clients[mpc.i])
    /\ events' = Append(events, Event("listTools", clients[mpc.i], "ok", catalog[clients[mpc.i]]))
    /\ mpc' = AfterList(mpc.i)
    /\ UNCHANGED <<catalog, clients, resources, last, notReg>>

\* loadAllTools(): listTools() of the next client fails, logged and skipped
ListToolsFails ==
    /\ mpc.phase = "loadingTools"
    /\ mpc.i <= Len(clients)
    /\ events' = Append(events, Event("listTools", clients[mpc.i], "error", <<>>))
    /\ mpc' = AfterList(mpc.i)
    /\ UNCHANGED <<catalog, clients, tools, resources, discovered, last, notReg>>

\* the next client of loadAllResources(), or the end of initializeServers()
AfterListResources(i) ==
    IF i < Len(clients)
    THEN [phase |-> "loadingResources", i |-> i + 1]
    ELSE [phase |-> "ready", i |-> 1]

\* loadAllResources(): listResources() of the next client answers; a non-empty
\* listing is registered, uri by uri
ListResourcesOk ==
    /\ mpc.phase = "loadingResources"
    /\ \E listed \in ResourceLists :
          /\ resources' = SetAll(resources, listed, clients[mpc.i])
          /\ events' = Append(events, Event("listResources", clients[mpc.i], "ok", listed))
    /\ mpc' = AfterListResources(mpc.i)
    /\ UNCHANGED <<catalog, clients, tools, discovered, last, notReg>>

\* a failed listResources() that ends loadAllResources()
ListResourcesAborts(result) ==
    /\ mpc.phase = "loadingResources"
    /\ events' = Append(events, Event("listResources", clients[mpc.i], result, <<>>))
    /\ mpc' = [phase |-> "ready", i |-> 1]
    /\ UNCHANGED <<catalog, clients, tools, resources, discovered, last, notReg>>

\* a failed listResources(): caught, the loop goes on with the next client
ListResourcesThrows(result) ==
    /\ mpc.phase = "loadingResources"
    /\ events' = Append(events, Event("listResources", clients[mpc.i], result, <<>>))
    /\ mpc' = AfterListResources(mpc.i)
    /\ UNCHANGED <<catalog, clients, tools, resources, discovered, last, notReg>>

\* loadAllResources(): the backend answers "method not found" (-32601), ignored
ListResourcesUnsupported == ListResourcesThrows("unsupported")

\* loadAllResources(): listResources() fails otherwise, logged
ListResourcesFails == ListResourcesThrows("error")

\* the next client of close(), or its end
AfterClose(i) ==
    IF i < Len(clients)
    THEN [phase |-> "closing", i |-> i + 1]
    ELSE [phase |-> "closed", i |-> 1]

\* close() starts its loop over this.clients
Close ==
    /\ mpc.phase = "ready"
    /\ mpc' = AfterClose(0)
    /\ UNCHANGED <<catalog, clients, tools, resources, events, discovered, last, notReg>>

\* close(): client.close() resolves
CloseOk ==
    /\ mpc.phase = "closing"
    /\ events' = Append(events, Event("close", clients[mpc.i], "ok", <<>>))
    /\ mpc' = AfterClose(mpc.i)
    /\ UNCHANGED <<catalog, clients, tools, resources, discovered, last, notReg>>

\* a failed client.close() that ends close()
CloseFailsAborts ==
    /\ mpc.phase = "closing"
    /\ events' = Append(events, Event("close", clients[mpc.i], "error", <<>>))
    /\ mpc' = [phase |-> "closed", i |-> 1]
    /\ UNCHANGED <<catalog, clients, tools, resources, discovered, last, notReg>>

\* close(): client.close() fails, logged
CloseFails ==
    /\ mpc.phase = "closing"
    /\ events' = Append(events, Event("close", clients[mpc.i], "error", <<>>))
    /\ mpc' = AfterClose(mpc.i)
    /\ UNCHANGED <<catalog, clients, tools, resources, discovered, last, notReg>>

\* callTool(toolName, args): this.tools.get(toolName), then toolInfo.client.callTool
callTool(m, name) ==
    LET toolInfo == MapGet(m, name)
    IN  [op |-> "callTool", server |-> "", name |-> name,
         found |-> MapHas(m, name), sentTo |-> toolInfo.serverName, seen |-> 0]

\* callToolOnServer(serverName, toolName, args):
\* Array.from(this.tools.values()).find(t => t.serverName === serverName && t.tool.name === toolName)
callToolOnServer(m, serverName, name) ==
    LET hit == \E n \in 1..Len(m) : m[n].serverName = serverName /\ m[n].name = name
    IN  [op |-> "callToolOnServer", server |-> serverName, name |-> name,
         found |-> hit, sentTo |-> IF hit THEN serverName ELSE "", seen |-> 0]

CallTool ==
    /\ \E name \in ToolNames :
          last' = [callTool(tools, name) EXCEPT !.seen = Len(discovered)]
    /\ UNCHANGED <<catalog, mpc, clients, tools, resources, events, discovered, notReg>>

CallToolOnServer ==
    /\ \E serverName \in ServerNames, name \in ToolNames :
          last' = [callToolOnServer(tools, serverName, name) EXCEPT !.seen = Len(discovered)]
    /\ UNCHANGED <<catalog, mpc, clients, tools, resources, events, discovered, notReg>>

\* name resolution: initializeServers() on backends that list no resources,
\* and the tool calls
RegistryNext ==
    \/ InitializeServers
    \/ ConnectOk
    \/ ConnectFails
    \/ LoadToolsDone
    \/ ListToolsOk
    \/ ListToolsFails
    \/ ListResourcesUnsupported
    \/ CallTool
    \/ CallToolOnServer

\* the life of a manager: initializeServers() with every outcome of every
\* request, then close()
LifecycleNext ==
    \/ InitializeServers
    \/ ConnectOk
    \/ ConnectFails
    \/ LoadToolsDone
    \/ ListToolsOk
    \/ ListToolsFails
    \/ ListResourcesOk
    \/ ListResourcesUnsupported
    \/ ListResourcesFails
    \/ Close
    \/ CloseOk
    \/ CloseFails

(***************************************************************************)
(* OllamaWithMCP.chat                                                      *)
(***************************************************************************)
\* chat() calls of the long-run scenario
MaxCalls == 11
\* failing turns of the long-run scenario
MaxFailedTurns == 1
\* chat() calls of the scenario with every kind of reply
MaxTurns == 3
\* chat requests of the scenario with concurrent HTTP requests
MaxRequests == 3
\* POST /api/config requests that change the configuration path
MaxReconfigs == 1

\* if (this.conversationHistory.length > 20) ... slice(-20)
HISTORY_CAP == 20

\* the chat() invocations that may be in flight; a REPL loop uses one
Slots       == {"c1", "c2"}
SerialSlots == {"c1"}

\* the content of a turn: fmt names the template, the other fields its parts
\*   "message"  the n-th user message
\*   "text"     txt as it is
\*   "used"     `Used tool ${tool} with result: ${txt}`
\*   "error"    `Error: ${err}`
\*   "system"   the system instructions with the tool and resource lists
NoContent == [fmt |-> "", n |-> 0, tool |-> JUndef, txt |-> <<>>, err |-> ""]
Message(n)         == [NoContent EXCEPT !.fmt = "message", !.n = n]
TextContent(txt)   == [NoContent EXCEPT !.fmt = "text", !.txt = txt]
UsedTool(tool, txt) == [NoContent EXCEPT !.fmt = "used", !.tool = tool, !.txt = txt]
ErrorContent(err)  == [NoContent EXCEPT !.fmt = "error", !.err = err]
SystemContent      == [NoContent EXCEPT !.fmt = "system"]

Turn(role, content) == [role |-> role, content |-> content]

\* error.message of the failures a turn can meet
E_NOT_FOUND == "Tool not found"
E_BACKEND   == "backend error"
E_MODEL     == "model error"

\* instructions.followUp: the text before and after its {TOOL_RESULT} placeholder
PLACEHOLDER  == <<LB, "T", "O", "O", "L", "_", "R", "E", "S", "U", "L", "T", RB>>
FOLLOWUP_PRE  == <<"T", "o", "o", "l", SP, "r", "e", "s", "u", "l", "t", ":", SP>>
FOLLOWUP_POST == <<NL, NL, "P", "l", "e", "a", "s", "e">>
FOLLOWUP      == FOLLOWUP_PRE \o PLACEHOLDER \o FOLLOWUP_POST

RECURSIVE indent(_)
indent(n) == IF n = 0 THEN <<>> ELSE <<SP, SP>> \o indent(n - 1)

RECURSIVE stringifyPretty(_, _)
RECURSIVE stringifyPrettyMembers(_, _)
stringifyPrettyMembers(kv, level) ==
    IF kv = <<>> THEN <<>>
    ELSE <<NL>> \o indent(level) \o <<QT>> \o kv[1][1] \o <<QT, ":", SP>>
         \o stringifyPretty(kv[1][2], level)
         \o (IF Len(kv) > 1 THEN <<",">> ELSE <<>>)
         \o stringifyPrettyMembers(Tail(kv), level)

\* JSON.stringify(v, null, 2) of a value nested at the given level
stringifyPretty(v, level) ==
    IF v.t = "object" /\ v.kv # <<>>
    THEN <<LB>> \o stringifyPrettyMembers(v.kv, level + 1) \o <<NL>> \o indent(level) \o <<RB>>
    ELSE stringify(v)

\* the backtick and the apostrophe, written as named characters
BACKTICK   == "backtick"
APOSTROPHE == "apostrophe"

\* the replacement text of String.prototype.replace(string, string):
\* $$ is $, $& the match, $backtick the text before it, $apostrophe the text after it
RECURSIVE expandReplacement(_, _, _, _)
expandReplacement(r, matched, before, after) ==
    IF r = <<>> THEN <<>>
    ELSE IF Head(r) = "$" /\ Len(r) >= 2 /\ r[2] \in {"$", "&", BACKTICK, APOSTROPHE}
         THEN (CASE r[2] = "$" -> <<"$">>
                 [] r[2] = "&" -> matched
                 [] r[2] = BACKTICK -> before
                 [] OTHER      -> after)
              \o expandReplacement(SubSeq(r, 3, Len(r)), matched, before, after)
         ELSE <<Head(r)>> \o expandReplacement(Tail(r), matched, before, after)

\* s.replace(pat, r): the first occurrence of pat replaced
replace(s, pat, r) ==
    LET a == indexOf(s, pat)
        before == SubSeq(s, 1, a)
        after  == SubSeq(s, a + Len(pat) + 1, Len(s))
    IN  IF a = -1 THEN s
        ELSE before \o expandReplacement(r, pat, before, after) \o after

\* instructions.followUp.replace('{TOOL_RESULT}', JSON.stringify(toolResult, null, 2))
followUpContent(toolResult) ==
    TextContent(replace(FOLLOWUP, PLACEHOLDER, stringifyPretty(toolResult, 0)))

\* h.slice(-n)
sliceLast(h, n) == IF Len(h) > n THEN SubSeq(h, Len(h) - n + 1, Len(h)) ELSE h

\* a trim that keeps the oldest turns
trimToCapOldest(h) == IF Len(h) > HISTORY_CAP THEN SubSeq(h, 1, HISTORY_CAP) ELSE h

\* if (history.length > 20) history = history.slice(-20)
trimToCap(h) == IF Len(h) > HISTORY_CAP THEN sliceLast(h, HISTORY_CAP) ELSE h

\* the two pushes without the trim
pushExchangeNoTrim(h, user, assistant) == h \o <<user, assistant>>

\* the two pushes and the trim of the tool path and of the regular path
pushExchange(h, user, assistant) == trimToCap(h \o <<user, assistant>>)

\* a catch block that records nothing
pushErrorDropped(h, user, assistant) == h

\* the two pushes of the catch block
pushError(h, user, assistant) == h \o <<user, assistant>>

\* messages = [system, ...this.conversationHistory, {role: 'user', content: message}]
firstPrompt(h, n) == <<Turn("system", SystemContent)>> \o h \o <<Turn("user", Message(n))>>

\* messages.push(assistant first reply); messages.push(user follow-up)
secondPrompt(messages, assistantMessage, toolResult) ==
    messages \o <<Turn("assistant", TextContent(assistantMessage)),
                  Turn("user", followUpContent(toolResult))>>

Idle == [pc |-> "Idle", n |-> 0, messages |-> <<>>, assistantMessage |-> <<>>,
         toolCall |-> JUndef, toolResult |-> JUndef, pending |-> ""]

\* the object a chat() call returns; keys: the properties it has
NoResult == [keys |-> {}, response |-> <<>>, toolUsed |-> JUndef, toolResult |-> JUndef,
             finalResponse |-> <<>>, error |-> "", rawResponse |-> <<>>]

\* { response: assistantMessage, toolUsed: null }
DirectResult(assistantMessage) ==
    [NoResult EXCEPT !.keys = {"response", "toolUsed"}, !.response = assistantMessage,
                     !.toolUsed = JNull]

\* { toolUsed, toolResult, finalResponse, rawResponse }
ToolAugmentedResult(tool, toolResult, cleaned, assistantMessage) ==
    [NoResult EXCEPT !.keys = {"toolUsed", "toolResult", "finalResponse", "rawResponse"},
                     !.toolUsed = tool, !.toolResult = toolResult,
                     !.finalResponse = cleaned, !.rawResponse = assistantMessage]

\* an error result without the first reply text
ErrorResultNoRaw(err, assistantMessage) ==
    [NoResult EXCEPT !.keys = {"error"}, !.error = err]

\* { error: `Tool call failed: ${error.message}`, rawResponse }; error holds the message
ErrorResult(err, assistantMessage) ==
    [NoResult EXCEPT !.keys = {"error", "rawResponse"}, !.error = err,
                     !.rawResponse = assistantMessage]

NoOutcome   == [status |-> "none", result |-> NoResult, err |-> ""]
Returns(r)  == [status |-> "returned", result |-> r, err |-> ""]
Throws(err) == [status |-> "thrown", result |-> NoResult, err |-> err]

\* a request sent by a chat() call: a model invocation with its prompt, or a
\* tool invocation on a backend with the tool name and the args; answer: what
\* the backend answered
ModelEvent(prompt) ==
    [e |-> "model", prompt |-> prompt, tool |-> JUndef, args |-> JUndef, server |-> "",
     answer |-> JUndef]
ToolEvent(tool, args, server) ==
    [e |-> "tool", prompt |-> <<>>, tool |-> tool, args |-> args, server |-> server,
     answer |-> JUndef]

\* no POST /api/tool request in flight
NoToolRequest == [pc |-> "Idle", server |-> ""]

\* no POST /api/config request in flight, none handled yet
NoReconfig == [pc |-> "Idle", n |-> 0]

ChatIdle ==
    /\ toolRequest = NoToolRequest
    /\ reconfig = NoReconfig
    /\ conversationHistory = <<>>
    /\ call = [c \in Slots |-> Idle]
    /\ outcome = [c \in Slots |-> NoOutcome]
    /\ trace = [c \in Slots |-> <<>>]
    /\ started = 0
    /\ failed = 0
    /\ okRun = 0
    /\ log = <<>>

\* the texts the model answers with
PROSE == <<"o", "k">>
WeatherDirective == stringify(Directive(T_WEATHER, JObj(<< << <<"c">>, JStr(<<"R">>) >> >>)))
\* a directive in prose
REPLY_TOOL      == <<"H", "i", SP>> \o WeatherDirective \o <<SP, "o", "k">>
\* a directive naming a tool no backend registered
REPLY_UNKNOWN   == stringify(Directive(T_LOG, JObj(<<>>)))
\* a directive followed by a second object
REPLY_TWO       == WeatherDirective \o <<SP, LB, RB>>
\* a directive wrapped in another object
REPLY_WRAPPED   == stringify(JObj(<< << <<"a">>, Directive(T_WEATHER, JObj(<<>>)) >> >>))

FirstReplies     == { <<>>, PROSE, REPLY_TOOL, REPLY_UNKNOWN, REPLY_TWO, REPLY_WRAPPED }
FirstRepliesLong == { PROSE, REPLY_TOOL }

FINE == <<"f", "i", "n", "e">>
SecondReplies     == { FINE,
                       THINK_OPEN \o <<"r">> \o THINK_CLOSE \o <<SP>> \o FINE,
                       THINK_OPEN \o <<"r">> }
SecondRepliesLong == { FINE }

\* what a backend answers
ToolResult(txt) == JObj(<< << <<"t", "e", "x", "t">>, JStr(txt) >> >>)
ToolResults     == { ToolResult(<<"s", "u", "n">>), ToolResult(<<"$", "$", "5">>),
                     JObj(<<>>) }
ToolResultsLong == { ToolResult(<<"s", "u", "n">>) }

\* isToolCall(assistantMessage) and parseToolCall(assistantMessage) of chat(),
\* evaluated once for each text the model answers with
ModelTexts      == FirstReplies \cup FirstRepliesLong
isToolCallOf    == [t \in ModelTexts |-> isToolCall(t)]
parseToolCallOf == [t \in ModelTexts |-> parseToolCall(t)]

\* the scenario with every kind of reply, and the long-run scenario
Rich == [first |-> FirstReplies, second |-> SecondReplies, results |-> ToolResults,
         maxCalls |-> MaxTurns, maxFailed |-> MaxTurns]
Long == [first |-> FirstRepliesLong, second |-> SecondRepliesLong,
         results |-> ToolResultsLong, maxCalls |-> MaxCalls, maxFailed |-> MaxFailedTurns]
\* the scenario of the HTTP handlers
Shared == [first |-> FirstRepliesLong, second |-> SecondRepliesLong,
           results |-> ToolResultsLong, maxCalls |-> MaxRequests, maxFailed |-> MaxRequests]

\* chat(message): the prompt is built and the model invoked (first pass)
ChatCall(c, p, serial) ==
    /\ call[c].pc = "Idle"
    /\ serial => \A d \in Slots : call[d].pc = "Idle"
    /\ started < p.maxCalls
    /\ started' = started + 1
    /\ LET messages == firstPrompt(conversationHistory, started + 1)
       IN  /\ call' = [call EXCEPT ![c] = [Idle EXCEPT !.pc = "AwaitingModel",
                                                         !.n = started + 1,
                                                         !.messages = messages]]
           /\ trace' = [trace EXCEPT ![c] = <<ModelEvent(messages)>>]
    /\ outcome' = [outcome EXCEPT ![c] = NoOutcome]
    /\ UNCHANGED <<conversationHistory, failed, okRun, log, notChat>>

\* the catch block: the user turn and an error turn are pushed, an error result returned
CatchError(c, err, assistantMessage) ==
    LET user == Turn("user", Message(call[c].n))
        asst == Turn("assistant", ErrorContent(err))
    IN  /\ conversationHistory' = pushError(conversationHistory, user, asst)
        /\ log' = log \o <<user, asst>>
        /\ outcome' = [outcome EXCEPT ![c] = Returns(ErrorResult(err, assistantMessage))]
        /\ call' = [call EXCEPT ![c] = Idle]
        /\ failed' = failed + 1
        /\ okRun' = -1

\* this.tools.get(toolName) with the tool name chat() extracted
Registered(tool) == tool.t = "string" /\ MapHas(tools, tool.s)

\* the first reply arrives: regular path, extraction failure, or tool dispatch
FirstReply(c, p) ==
    /\ call[c].pc = "AwaitingModel"
    /\ \E assistantMessage \in p.first :
         IF Truthy(isToolCallOf[assistantMessage])
         THEN LET parsed == parseToolCallOf[assistantMessage]
                  tool   == Get(parsed.v, S_TOOL)
                  args   == IF Get(parsed.v, S_ARGS) = JUndef THEN JObj(<<>>)
                            ELSE Get(parsed.v, S_ARGS)
              IN  IF ~parsed.ok
                  THEN /\ failed < p.maxFailed
                       /\ CatchError(c, parsed.err, assistantMessage)
                       /\ UNCHANGED <<trace, started, notChat>>
                  ELSE /\ call' = [call EXCEPT ![c].pc = "AwaitingToolResult",
                                               ![c].assistantMessage = assistantMessage,
                                               ![c].toolCall = parsed.v,
                                               ![c].pending =
                                                   IF Registered(tool) THEN "sent"
                                                   ELSE "NotFound"]
                       /\ trace' = [trace EXCEPT ![c] =
                              IF Registered(tool)
                              THEN Append(@, ToolEvent(tool, args, MapGet(tools, tool.s).serverName))
                              ELSE @]
                       /\ UNCHANGED <<conversationHistory, outcome, started, failed, okRun,
                                      log, notChat>>
         ELSE LET user == Turn("user", Message(call[c].n))
                  asst == Turn("assistant", TextContent(assistantMessage))
              IN  /\ conversationHistory' = pushExchange(conversationHistory, user, asst)
                  /\ log' = log \o <<user, asst>>
                  /\ outcome' = [outcome EXCEPT ![c] = Returns(DirectResult(assistantMessage))]
                  /\ call' = [call EXCEPT ![c] = Idle]
                  /\ okRun' = IF okRun >= 0 THEN okRun + 1 ELSE okRun
                  /\ UNCHANGED <<trace, started, failed, notChat>>

\* the first model invocation rejects: chat() has no handler around it
FirstReplyFails(c, p) ==
    /\ call[c].pc = "AwaitingModel"
    /\ failed < p.maxFailed
    /\ outcome' = [outcome EXCEPT ![c] = Throws(E_MODEL)]
    /\ call' = [call EXCEPT ![c] = Idle]
    /\ failed' = failed + 1
    /\ okRun' = -1
    /\ UNCHANGED <<conversationHistory, trace, started, log, notChat>>

\* callTool() threw `Tool '...' not found`: the catch block runs
ToolNotFound(c, p) ==
    /\ call[c].pc = "AwaitingToolResult"
    /\ call[c].pending = "NotFound"
    /\ failed < p.maxFailed
    /\ CatchError(c, E_NOT_FOUND, call[c].assistantMessage)
    /\ UNCHANGED <<trace, started, notChat>>

\* the backend rejects the tool call: the catch block runs
ToolRejected(c, p) ==
    /\ call[c].pc = "AwaitingToolResult"
    /\ call[c].pending = "sent"
    /\ failed < p.maxFailed
    /\ CatchError(c, E_BACKEND, call[c].assistantMessage)
    /\ UNCHANGED <<trace, started, notChat>>

\* the backend answers: the follow-up prompt is built and the model invoked again
ToolAnswers(c, p) ==
    /\ call[c].pc = "AwaitingToolResult"
    /\ call[c].pending = "sent"
    /\ \E toolResult \in p.results :
         LET messages == secondPrompt(call[c].messages, call[c].assistantMessage, toolResult)
         IN  /\ call' = [call EXCEPT ![c].pc = "AwaitingFollowUpModel",
                                     ![c].messages = messages,
                                     ![c].toolResult = toolResult,
                                     ![c].pending = ""]
             /\ trace' = [trace EXCEPT ![c] =
                    Append([@ EXCEPT ![Len(@)].answer = toolResult], ModelEvent(messages))]
    /\ UNCHANGED <<conversationHistory, outcome, started, failed, okRun, log, notChat>>

\* the second reply arrives: cleaned, recorded in the history, returned
FollowUpReply(c, p) ==
    /\ call[c].pc = "AwaitingFollowUpModel"
    /\ \E reply \in p.second :
         LET cleanedResponse == stripThink(reply)
             tool == Get(call[c].toolCall, S_TOOL)
             user == Turn("user", Message(call[c].n))
             asst == Turn("assistant", UsedTool(tool, cleanedResponse))
         IN  /\ conversationHistory' = pushExchange(conversationHistory, user, asst)
             /\ log' = log \o <<user, asst>>
             /\ outcome' = [outcome EXCEPT ![c] =
                    Returns(ToolAugmentedResult(tool, call[c].toolResult,
                                                cleanedResponse, call[c].assistantMessage))]
    /\ call' = [call EXCEPT ![c] = Idle]
    /\ okRun' = IF okRun >= 0 THEN okRun + 1 ELSE okRun
    /\ UNCHANGED <<trace, started, failed, notChat>>

\* the second model invocation rejects: the catch block runs
FollowUpFails(c, p) ==
    /\ call[c].pc = "AwaitingFollowUpModel"
    /\ failed < p.maxFailed
    /\ CatchError(c, E_MODEL, call[c].assistantMessage)
    /\ UNCHANGED <<trace, started, notChat>>

\* clearConversationHistory()
ClearHistory(serial) ==
    /\ serial => \A d \in Slots : call[d].pc = "Idle"
    /\ conversationHistory # <<>>
    /\ conversationHistory' = <<>>
    /\ log' = <<>>
    /\ okRun' = 0
    /\ UNCHANGED <<call, outcome, trace, started, failed, notChat>>

\* one conversation driven by a REPL loop, every kind of reply
Call          == \E c \in SerialSlots : ChatCall(c, Rich, TRUE)
Reply         == \E c \in SerialSlots : FirstReply(c, Rich)
ModelDown     == \E c \in SerialSlots : FirstReplyFails(c, Rich)
NotFound      == \E c \in SerialSlots : ToolNotFound(c, Rich)
Rejected      == \E c \in SerialSlots : ToolRejected(c, Rich)
Answered      == \E c \in SerialSlots : ToolAnswers(c, Rich)
FollowUp      == \E c \in SerialSlots : FollowUpReply(c, Rich)
FollowUpDown  == \E c \in SerialSlots : FollowUpFails(c, Rich)
Clear         == ClearHistory(TRUE)

Next ==
    \/ Call
    \/ Reply
    \/ ModelDown
    \/ NotFound
    \/ Rejected
    \/ Answered
    \/ FollowUp
    \/ FollowUpDown
    \/ Clear

\* the long run: the model always answers, the backend may reject
LongCall      == \E c \in SerialSlots : ChatCall(c, Long, TRUE)
LongReply     == \E c \in SerialSlots : FirstReply(c, Long)
LongRejected  == \E c \in SerialSlots : ToolRejected(c, Long)
LongAnswered  == \E c \in SerialSlots : ToolAnswers(c, Long)
LongFollowUp  == \E c \in SerialSlots : FollowUpReply(c, Long)

LongNext ==
    \/ LongCall
    \/ LongReply
    \/ LongRejected
    \/ LongAnswered
    \/ LongFollowUp

\* POST /api/tool: mcpManager.callTool(toolName, args) on a registered tool;
\* the handler awaits the backend
ToolEndpointCall ==
    /\ toolRequest.pc = "Idle"
    /\ \E toolName \in ToolNames :
          /\ MapHas(tools, toolName)
          /\ toolRequest' = [pc |-> "AwaitingToolResult",
                             server |-> callTool(tools, toolName).sentTo]
    /\ UNCHANGED <<reconfig, notHttp>>

\* POST /api/tool: callTool() throws "not found", the handler answers 500
ToolEndpointNotFound ==
    /\ toolRequest.pc = "Idle"
    /\ \E toolName \in ToolNames : ~callTool(tools, toolName).found
    /\ UNCHANGED vars

\* POST /api/tool: the backend answers or rejects, the handler responds
ToolEndpointAnswers ==
    /\ toolRequest.pc = "AwaitingToolResult"
    /\ toolRequest' = NoToolRequest
    /\ UNCHANGED <<reconfig, notHttp>>

\* one OllamaWithMCP and one MCPManager behind the HTTP handlers: a request
\* is handled as soon as it arrives
SharedCall      == \E c \in Slots : ChatCall(c, Shared, FALSE)
SharedReply     == \E c \in Slots : FirstReply(c, Shared)
SharedRejected  == \E c \in Slots : ToolRejected(c, Shared)
SharedAnswered  == \E c \in Slots : ToolAnswers(c, Shared)
SharedFollowUp  == \E c \in Slots : FollowUpReply(c, Shared)
SharedModelDown == \E c \in Slots : FirstReplyFails(c, Shared)
\* POST /api/clear-history, handled whatever else is in flight
SharedClear     == ClearHistory(FALSE)

SharedNext ==
    \/ SharedCall
    \/ SharedReply
    \/ SharedModelDown
    \/ SharedRejected
    \/ SharedAnswered
    \/ SharedFollowUp
    \/ SharedClear
    \/ ToolEndpointCall
    \/ ToolEndpointNotFound
    \/ ToolEndpointAnswers

\* what initializeServers() met on the backends of the loaded manager
LoadedEvents ==
    <<Event("connect", "backendA", "ok", <<>>),
      Event("connect", "backendB", "error", <<>>),
      Event("connect", "backendC", "error", <<>>),
      Event("listTools", "backendA", "ok", <<T_WEATHER>>),
      Event("listResources", "backendA", "unsupported", <<>>)>>

\* POST /api/config with a configPath: loadConfig() resolved and the handler
\* calls this.mcpManager.close(), which starts its loop over the clients
ConfigPost ==
    /\ reconfig.pc = "Idle"
    /\ reconfig.n < MaxReconfigs
    /\ mpc.phase = "ready"
    /\ reconfig' = [reconfig EXCEPT !.pc = "Closing"]
    /\ mpc' = AfterClose(0)
    /\ UNCHANGED <<catalog, clients, tools, resources, events, discovered, last,
                   textVars, chatVars, toolRequest>>

\* close() resolved: this.mcpManager = new MCPManager(...) and the handler
\* awaits its initializeServers(); ollamaClient.mcp is still the old manager
ConfigReplace ==
    /\ reconfig.pc = "Closing"
    /\ mpc.phase = "closed"
    /\ reconfig' = [reconfig EXCEPT !.pc = "Initializing"]
    /\ UNCHANGED <<regVars, textVars, chatVars, toolRequest>>

\* initializeServers() resolved: this.ollamaClient.mcp = this.mcpManager.  From
\* here on the registry is that of the new manager, loaded from the same
\* backends over connections of its own
ConfigSwap ==
    /\ reconfig.pc = "Initializing"
    /\ reconfig' = [pc |-> "Idle", n |-> reconfig.n + 1]
    /\ mpc' = [phase |-> "ready", i |-> 1]
    /\ events' = LoadedEvents
    /\ UNCHANGED <<catalog, clients, tools, resources, discovered, last,
                   textVars, chatVars, toolRequest>>

\* chat requests handled while the configuration is being replaced
ReconfCall      == \E c \in SerialSlots : ChatCall(c, Shared, FALSE)
ReconfReply     == \E c \in SerialSlots : FirstReply(c, Shared)
ReconfRejected  == \E c \in SerialSlots : ToolRejected(c, Shared)
ReconfAnswered  == \E c \in SerialSlots : ToolAnswers(c, Shared)
ReconfFollowUp  == \E c \in SerialSlots : FollowUpReply(c, Shared)

ReconfigureNext ==
    \/ ConfigPost
    \/ CloseOk
    \/ CloseFails
    \/ ConfigReplace
    \/ ConfigSwap
    \/ ReconfCall
    \/ ReconfReply
    \/ ReconfRejected
    \/ ReconfAnswered
    \/ ReconfFollowUp

(***************************************************************************)
(* Specifications                                                          *)
(***************************************************************************)
\* a manager whose discovery found the weather tool on one backend
RegistryLoaded ==
    /\ catalog = [b \in ServerNames |-> IF b = "backendA" THEN <<T_WEATHER>> ELSE <<>>]
    /\ mpc = [phase |-> "ready", i |-> 1]
    /\ clients = <<"backendA">>
    /\ tools = <<[name |-> T_WEATHER, serverName |-> "backendA"]>>
    /\ resources = <<>>
    /\ events = LoadedEvents
    /\ discovered = <<"backendA">>
    /\ last = NoCall

\* the text functions on every generated input text
TextInit ==
    /\ \E x \in TextInputs : text = x.text /\ meta = x.meta
    /\ TextIdle
    /\ RegistryLoaded
    /\ ChatIdle

SpecText == TextInit /\ [][TextNext]_vars

\* a new MCPManager: initializeServers() and the tool calls
RegistryInit ==
    /\ text = <<>> /\ meta = NoMeta /\ TextIdle
    /\ catalog \in [ServerNames -> Catalogs]
    /\ RegistryNew
    /\ ChatIdle

SpecRegistry == RegistryInit /\ [][RegistryNext]_vars

\* a new MCPManager, from initializeServers() to close()
SpecLifecycle == RegistryInit /\ [][LifecycleNext]_vars

\* a new OllamaWithMCP on a manager whose discovery is complete
Init ==
    /\ text = <<>> /\ meta = NoMeta /\ TextIdle
    /\ RegistryLoaded
    /\ ChatIdle

Spec == Init /\ [][Next]_vars

SpecLong == Init /\ [][LongNext]_vars

\* the REPL conversation where every invocation of the model and of a backend
\* that is awaited eventually resolves or rejects
SpecLive ==
    /\ Init /\ [][Next]_vars
    /\ WF_vars(Reply \/ ModelDown)
    /\ WF_vars(NotFound \/ Rejected \/ Answered)
    /\ WF_vars(FollowUp \/ FollowUpDown)

\* the web GUI: chat requests and tool requests arrive while others are in flight
SpecShared == Init /\ [][SharedNext]_vars

\* the web GUI while POST /api/config replaces the manager
SpecReconfigure == Init /\ [][ReconfigureNext]_vars

(***************************************************************************)
(* Properties: OllamaWithMCP.chat                                          *)
(***************************************************************************)
AllIdle == \A c \in Slots : call[c].pc = "Idle"

Min(a, b) == IF a < b THEN a ELSE b

\* C1: whatever path the calls took, the history holds at most 20 turns.
C1_HistoryCap == Len(conversationHistory) <= HISTORY_CAP

\* C2: after n >= 1 successful calls made one after the other from an empty
\* history, the history is the last min(n, 10) exchanges in their order: its
\* length is 2 * min(n, 10), and from the 11th call on the oldest exchange
\* is gone.
C2_RecentExchanges ==
    (AllIdle /\ okRun >= 1) =>
        LET m == Min(okRun, 10)
        IN  /\ Len(log) = 2 * okRun
            /\ Len(conversationHistory) = 2 * m
            /\ conversationHistory = SubSeq(log, Len(log) - 2 * m + 1, Len(log))
            /\ \A k \in 1..m :
                  /\ conversationHistory[2 * k - 1] = Turn("user", Message(okRun - m + k))
                  /\ conversationHistory[2 * k].role = "assistant"

\* C2 witness: eleven successful calls, direct and tool-augmented, have
\* returned; the history holds exchanges 2 to 11.
C2_Witness ==
    /\ AllIdle /\ okRun = 11
    /\ Len(conversationHistory) = 20
    /\ conversationHistory[1].content = Message(2)
    /\ conversationHistory[2].content.fmt = "used"
    /\ conversationHistory[20].content.fmt = "text"

\* C3: no chat() call ends by throwing: each returns a result object.
C3_NeverThrows == \A c \in Slots : outcome[c].status # "thrown"

IsToolAugmented(c) ==
    outcome[c].status = "returned" /\ "finalResponse" \in outcome[c].result.keys

\* the follow-up template with the serialized tool result in its placeholder
CarriesResult(toolResult) ==
    TextContent(FOLLOWUP_PRE \o stringifyPretty(toolResult, 0) \o FOLLOWUP_POST)

\* C9: a call that returned a tool-augmented result sent exactly: the first
\* model invocation, one tool invocation with the extracted tool name and
\* args, one second model invocation whose prompt is the first prompt, then
\* the first reply as assistant turn, then a user turn carrying the serialized
\* tool result; and it returned the extracted tool name, the backend's
\* answer and the first reply text.
C9_ToolTurnOrder ==
    \A c \in Slots : IsToolAugmented(c) =>
        LET tr     == trace[c]
            res    == outcome[c].result
            parsed == parseToolCallOf[res.rawResponse]
        IN  /\ Len(tr) = 3
            /\ tr[1].e = "model" /\ tr[2].e = "tool" /\ tr[3].e = "model"
            /\ tr[2].tool = Get(parsed.v, S_TOOL)
            /\ tr[2].args = Get(parsed.v, S_ARGS)
            /\ tr[3].prompt = tr[1].prompt
                    \o <<Turn("assistant", TextContent(res.rawResponse)),
                         Turn("user", CarriesResult(tr[2].answer))>>
            /\ res.toolUsed = Get(parsed.v, S_TOOL)
            /\ res.toolResult = tr[2].answer

\* the number of requests of one kind in a trace
RECURSIVE CountEvents(_, _)
CountEvents(tr, e) ==
    IF tr = <<>> THEN 0
    ELSE (IF Head(tr).e = e THEN 1 ELSE 0) + CountEvents(Tail(tr), e)

\* the step in which the awaited tool invocation of call c fails
ToolFailureStep(c) == call[c].pc = "AwaitingToolResult" /\ call'[c].pc = "Idle"

\* C11: when the tool invocation fails (backend rejection, or tool name not
\* registered) the call sends no further request, so the model was invoked
\* once; the user turn and an error entry are appended to the history; the
\* result returned has the failure message as error and the first reply text
\* as rawResponse.
C11_ToolFailure ==
    [][\A c \in Slots : ToolFailureStep(c) =>
        LET tool == Get(call[c].toolCall, S_TOOL)
            err  == IF Registered(tool) THEN E_BACKEND ELSE E_NOT_FOUND
        IN  /\ trace'[c] = trace[c]
            /\ CountEvents(trace'[c], "model") = 1
            /\ CountEvents(trace'[c], "tool") = (IF Registered(tool) THEN 1 ELSE 0)
            /\ conversationHistory' = conversationHistory
                    \o <<Turn("user", Message(call[c].n)),
                         Turn("assistant", ErrorContent(err))>>
            /\ outcome'[c].status = "returned"
            /\ outcome'[c].result.keys = {"error", "rawResponse"}
            /\ outcome'[c].result.error = err
            /\ outcome'[c].result.rawResponse = call[c].assistantMessage]_vars

\* C11 witness: a call whose tool invocation the backend rejected has returned.
C11_Witness ==
    /\ call["c1"].pc = "Idle"
    /\ outcome["c1"].status = "returned"
    /\ outcome["c1"].result.error = E_BACKEND
    /\ outcome["c1"].result.rawResponse = REPLY_TOOL
    /\ Len(trace["c1"]) = 2 /\ trace["c1"][2].e = "tool"
    /\ conversationHistory # <<>>
    /\ conversationHistory[Len(conversationHistory)].content = ErrorContent(E_BACKEND)

\* a reply that isToolCall accepts and parseToolCall rejects
ExtractionFails(txt) == Truthy(isToolCallOf[txt]) /\ ~parseToolCallOf[txt].ok

\* the step in which call c returns an error for a first reply whose
\* extraction fails
ExtractionFailureStep(c) ==
    /\ call[c].pc = "AwaitingModel" /\ call'[c].pc = "Idle"
    /\ outcome'[c].status = "returned"
    /\ "rawResponse" \in outcome'[c].result.keys
    /\ ExtractionFails(outcome'[c].result.rawResponse)

\* C12: when the first reply is classified as a directive and its extraction
\* fails, the call appends the user turn and an error turn to the history and
\* returns an error result, having sent the first model invocation and nothing
\* else; and a request goes to a backend only after an extraction that
\* succeeded.
C12_ExtractionFailure ==
    [][\A c \in Slots :
        /\ ExtractionFailureStep(c) =>
              LET err == parseToolCallOf[outcome'[c].result.rawResponse].err
              IN  /\ trace'[c] = trace[c]
                  /\ Len(trace'[c]) = 1 /\ trace'[c][1].e = "model"
                  /\ conversationHistory' = conversationHistory
                          \o <<Turn("user", Message(call[c].n)),
                               Turn("assistant", ErrorContent(err))>>
                  /\ "error" \in outcome'[c].result.keys
                  /\ outcome'[c].result.error = err
        /\ (call[c].pc = "AwaitingModel" /\ call'[c].pc = "AwaitingToolResult")
              => ~ExtractionFails(call'[c].assistantMessage)]_vars

\* C12 witness: a call whose first reply was a directive followed by a second
\* object has returned the parse failure.
C12_Witness ==
    /\ call["c1"].pc = "Idle"
    /\ outcome["c1"].status = "returned"
    /\ outcome["c1"].result.rawResponse = REPLY_TWO
    /\ outcome["c1"].result.error = ERR_SYNTAX
    /\ Len(trace["c1"]) = 1
    /\ conversationHistory[Len(conversationHistory)].content = ErrorContent(ERR_SYNTAX)

\* the step in which call c returns a direct response
DirectStep(c) ==
    /\ call[c].pc = "AwaitingModel" /\ call'[c].pc = "Idle"
    /\ outcome'[c].status = "returned"
    /\ "response" \in outcome'[c].result.keys

\* C13: a call returns a direct response exactly when its first reply is not
\* classified as a directive; it then has invoked the model once and contacted
\* no backend, the history is the old history with the pair (user: the
\* message, assistant: the reply) appended and cut to its last 20 turns, and
\* the response is the reply, toolUsed null.
C13_DirectPath ==
    [][\A c \in Slots :
        /\ DirectStep(c) =>
              LET r   == outcome'[c].result.response
                  all == conversationHistory
                             \o <<Turn("user", Message(call[c].n)),
                                  Turn("assistant", TextContent(r))>>
              IN  /\ ~Truthy(isToolCallOf[r])
                  /\ trace'[c] = trace[c]
                  /\ Len(trace'[c]) = 1 /\ trace'[c][1].e = "model"
                  /\ conversationHistory' =
                        (IF Len(all) > 20 THEN SubSeq(all, Len(all) - 19, Len(all)) ELSE all)
                  /\ outcome'[c].result.keys = {"response", "toolUsed"}
                  /\ outcome'[c].result.toolUsed = JNull
        /\ (call[c].pc = "AwaitingModel" /\ call'[c].pc = "AwaitingToolResult")
              => Truthy(isToolCallOf[call'[c].assistantMessage])
        /\ (call[c].pc = "AwaitingModel" /\ call'[c].pc = "Idle"
              /\ outcome'[c].status = "returned" /\ ~DirectStep(c))
              => Truthy(isToolCallOf[outcome'[c].result.rawResponse])]_vars

\* C13 witness: the eleventh call of a run of successful calls has returned a
\* direct response and the first exchange has left the history.
C13_Witness ==
    /\ call["c1"].pc = "Idle" /\ okRun = 11
    /\ outcome["c1"].result.keys = {"response", "toolUsed"}
    /\ outcome["c1"].result.response = PROSE
    /\ Len(trace["c1"]) = 1
    /\ Len(conversationHistory) = 20
    /\ conversationHistory[1] = Turn("user", Message(2))
    /\ conversationHistory[19] = Turn("user", Message(11))

\* the positions a turn may move to from each position
TurnSuccessors(pc) ==
    CASE pc = "Idle"                  -> {"AwaitingModel"}
      [] pc = "AwaitingModel"         -> {"Idle", "AwaitingToolResult"}
      [] pc = "AwaitingToolResult"    -> {"Idle", "AwaitingFollowUpModel"}
      [] pc = "AwaitingFollowUpModel" -> {"Idle"}

\* every turn moves through the positions in their order
TurnsFollowTheOrder ==
    [][\A c \in Slots :
        call'[c].pc # call[c].pc => call'[c].pc \in TurnSuccessors(call[c].pc)]_vars

\* every turn that has started comes back to Idle
TurnsEnd == \A c \in Slots : (call[c].pc # "Idle") ~> (call[c].pc = "Idle")

IsDirectResponse(r) ==
    "response" \in r.keys /\ "toolUsed" \in r.keys /\ r.toolUsed = JNull
IsToolAugmentedResponse(r) ==
    /\ "toolUsed" \in r.keys /\ r.toolUsed.t = "string"
    /\ "finalResponse" \in r.keys /\ "error" \notin r.keys
IsErrorResult(r) == "error" \in r.keys /\ "toolUsed" \notin r.keys

\* the call ended with exactly one of the three outcomes
OneOfThreeOutcomes(o) ==
    /\ o.status = "returned"
    /\ Cardinality({ k \in {"direct", "tool", "error"} :
            \/ k = "direct" /\ IsDirectResponse(o.result)
            \/ k = "tool" /\ IsToolAugmentedResponse(o.result)
            \/ k = "error" /\ IsErrorResult(o.result) }) = 1

\* every turn that comes back to Idle has one of the three outcomes
TurnsEndWithAnOutcome ==
    [][\A c \in Slots :
        (call[c].pc # "Idle" /\ call'[c].pc = "Idle") => OneOfThreeOutcomes(outcome'[c])]_vars

\* C20: when every awaited invocation eventually answers, every turn moves
\* through Idle, AwaitingModel, then possibly AwaitingToolResult and
\* AwaitingFollowUpModel, comes back to Idle, and does so with exactly one of
\* the three outcomes: direct response, tool-augmented response, error result.
C20_TurnOutcome == TurnsFollowTheOrder /\ TurnsEnd /\ TurnsEndWithAnOutcome

InFlightAtModel == { c \in Slots : call[c].pc \in {"AwaitingModel", "AwaitingFollowUpModel"} }

\* C17: at most one model invocation of the shared conversation is in flight.
C17_OneModelInvocation == Cardinality(InFlightAtModel) <= 1

\* the chat() calls whose tool request to backend b is outstanding
ChatRequestsAt(b) ==
    { c \in Slots : /\ call[c].pc = "AwaitingToolResult" /\ call[c].pending = "sent"
                    /\ trace[c][Len(trace[c])].server = b }

Outstanding(b) ==
    Cardinality(ChatRequestsAt(b))
        + (IF toolRequest.pc = "AwaitingToolResult" /\ toolRequest.server = b THEN 1 ELSE 0)

\* C18: no backend connection has more than one outstanding tool request.
C18_OneOutstandingRequest == \A b \in ServerNames : Outstanding(b) <= 1

\* the history is a sequence of (user, assistant) pairs and holds no system turn
PairedHistory ==
    /\ Len(conversationHistory) % 2 = 0
    /\ \A i \in 1..Len(conversationHistory) :
          conversationHistory[i].role = IF i % 2 = 1 THEN "user" ELSE "assistant"

\* the chat() call of slot c settles in this step
TurnSettles(c) == call[c].pc # "Idle" /\ call'[c].pc = "Idle"

\* the step appends the user turn of call c and one assistant turn to the
\* history, which keeps the turns it had or, at the cap, the latest of them
AddsOneExchange(c) ==
    LET n == Len(conversationHistory')
    IN  /\ n >= 2
        /\ conversationHistory'[n - 1] = Turn("user", Message(call[c].n))
        /\ conversationHistory'[n].role = "assistant"
        /\ SubSeq(conversationHistory', 1, n - 2)
             = sliceLast(conversationHistory, n - 2)

\* C26: after any sequence of chat() calls, interleaved or not, and of
\* clearConversationHistory() calls, the history has even length and is made
\* of adjacent (user, assistant) pairs starting with a user turn, without a
\* system turn; and every turn, an error turn included, adds exactly two
\* entries.
C26_PairedHistory ==
    /\ []PairedHistory
    /\ [][\A c \in Slots : TurnSettles(c) => AddsOneExchange(c)]_vars

\* the step records an 'Error: ...' turn as the last entry of the history
RecordsError ==
    /\ conversationHistory' # conversationHistory
    /\ conversationHistory' # <<>>
    /\ conversationHistory'[Len(conversationHistory')].content.fmt = "error"

\* C30: chat() returns 'Tool call failed: ...' and records 'Error: ...' only
\* when the extraction or the tool invocation on the backend failed: a turn
\* whose tool invocation succeeded is never reported as a failed tool call,
\* even when the second model invocation fails afterwards.
C30_FailedToolCallOnly ==
    [][\A c \in Slots :
        (TurnSettles(c) /\ (IsErrorResult(outcome'[c].result) \/ RecordsError))
            => /\ call[c].pc \in {"AwaitingModel", "AwaitingToolResult"}
               /\ call[c].toolResult = JUndef]_vars

(***************************************************************************)
(* Properties: MCPManager                                                  *)
(***************************************************************************)
Advertises(b, name) == \E n \in 1..Len(catalog[b]) : catalog[b][n] = name

IsDiscovered(b) == \E n \in 1..Len(discovered) : discovered[n] = b

SetMax(S) == CHOOSE x \in S : \A y \in S : y <= x

\* positions, among the first k discovered backends, of those advertising name
Advertisers(name, k) == { n \in 1..k : Advertises(discovered[n], name) }

\* C4: pinned resolution. A callToolOnServer(A, name) made once discovery is
\* complete resolves to backend A whenever A is a discovered backend that
\* advertises name, whatever the discovery order, and fails with NotFound only
\* when A does not advertise name.
C4_PinnedResolution ==
    (last.op = "callToolOnServer" /\ last.seen = Len(discovered) /\ mpc.phase = "ready")
        => /\ (IsDiscovered(last.server) /\ Advertises(last.server, last.name))
                => (last.found /\ last.sentTo = last.server)
           /\ last.found => Advertises(last.server, last.name)

\* C5: every registered tool name has exactly one entry, the registry holds
\* exactly the names advertised by the discovered backends, each owned by the
\* backend discovered last among those advertising it, and callTool(name)
\* sends its request to that backend.
C5_LastDiscoveredWins ==
    /\ \A i, j \in 1..Len(tools) : tools[i].name = tools[j].name => i = j
    /\ \A name \in ToolNames :
          LET adv == Advertisers(name, Len(discovered))
          IN  IF adv = {} THEN ~MapHas(tools, name)
              ELSE MapGet(tools, name).serverName = discovered[SetMax(adv)]
    /\ last.op = "callTool" =>
          LET adv == Advertisers(last.name, last.seen)
          IN  /\ last.found = (adv # {})
              /\ adv # {} => last.sentTo = discovered[SetMax(adv)]

\* C5 witness: two discovered backends advertise the same name and callTool
\* on that name went to the one discovered last.
C5_Witness ==
    /\ last.op = "callTool"
    /\ last.found
    /\ Cardinality(Advertisers(last.name, last.seen)) >= 2
    /\ last.sentTo = discovered[last.seen]
    /\ last.sentTo # discovered[1]

\* the requests of one kind, in the order they were made
EventsOf(op) == SelectSeq(events, LAMBDA e : e.op = op)

ServersOf(evs) == [n \in 1..Len(evs) |-> evs[n].server]

Connected == { clients[n] : n \in 1..Len(clients) }

ConnectFailed(b) ==
    \E n \in 1..Len(events) :
        events[n].op = "connect" /\ events[n].server = b /\ events[n].result # "ok"

InitializationDone == mpc.phase \in {"ready", "closing", "closed"}

\* the registry that the answered listings make, one after the other
RECURSIVE Registry(_, _)
Registry(evs, m) ==
    IF evs = <<>> THEN m
    ELSE Registry(Tail(evs),
                  IF Head(evs).result = "ok"
                  THEN SetAll(m, Head(evs).items, Head(evs).server) ELSE m)

\* C14: the owner of every tool and resource entry is a connected backend; a
\* backend whose connection failed is not connected (so owns nothing); once
\* the connecting loop is over every configured backend was attempted, once,
\* in order, whichever of them failed; and once initializeServers() is over
\* every connected backend was asked for its tools and for its resources.
C14_FailedConnections ==
    /\ \A n \in 1..Len(tools) : tools[n].serverName \in Connected
    /\ \A n \in 1..Len(resources) : resources[n].serverName \in Connected
    /\ \A b \in ServerNames : ConnectFailed(b) =>
          /\ b \notin Connected
          /\ \A n \in 1..Len(tools) : tools[n].serverName # b
          /\ \A n \in 1..Len(resources) : resources[n].serverName # b
    /\ mpc.phase \notin {"new", "connecting"} =>
          /\ ServersOf(EventsOf("connect")) = ConfiguredServers
          /\ clients = ServersOf(SelectSeq(EventsOf("connect"), LAMBDA e : e.result = "ok"))
    /\ InitializationDone =>
          /\ ServersOf(EventsOf("listTools")) = clients
          /\ ServersOf(EventsOf("listResources")) = clients

\* C14 witness: initializeServers() is over; the first and the last backend
\* failed to connect, both advertise tools; the second one owns entries.
C14_Witness ==
    /\ mpc.phase = "ready"
    /\ ConnectFailed("backendA") /\ ConnectFailed("backendC")
    /\ catalog["backendA"] # <<>> /\ catalog["backendC"] # <<>>
    /\ clients = <<"backendB">>
    /\ Len(tools) = 2 /\ tools[1].serverName = "backendB"
    /\ Len(resources) = 1 /\ resources[1].serverName = "backendB"

ResourceListingFailed(b) ==
    \E n \in 1..Len(events) :
        events[n].op = "listResources" /\ events[n].server = b /\ events[n].result # "ok"

\* C15: a backend whose resource listing failed, with "method not supported"
\* or otherwise, owns no resource entry; the resource registry is what the
\* answered listings make, the tool registry what the answered tool listings
\* make; and once initializeServers() is over every connected backend was
\* asked for its resources, once, in order, whichever listings failed.
C15_ResourceListingFailure ==
    /\ \A b \in ServerNames : ResourceListingFailed(b) =>
          \A n \in 1..Len(resources) : resources[n].serverName # b
    /\ resources = Registry(EventsOf("listResources"), <<>>)
    /\ tools = Registry(EventsOf("listTools"), <<>>)
    /\ InitializationDone => ServersOf(EventsOf("listResources")) = clients
    /\ \A n \in 1..Len(events) :
          events[n].op = "listResources" => mpc.phase \in {"loadingResources", "ready",
                                                            "closing", "closed"}

\* C15 witness: initializeServers() is over; the first backend answered
\* "method not supported", the second failed otherwise, the third listed a
\* resource that is registered; the first one's tools are registered.
C15_Witness ==
    /\ mpc.phase = "ready"
    /\ clients = ConfiguredServers
    /\ EventsOf("listResources") =
          <<Event("listResources", "backendA", "unsupported", <<>>),
            Event("listResources", "backendB", "error", <<>>),
            Event("listResources", "backendC", "ok", <<U_DOC>>)>>
    /\ resources = <<[name |-> U_DOC, serverName |-> "backendC"]>>
    /\ \E n \in 1..Len(tools) : tools[n].serverName = "backendA"

\* C16: close() asks every connected backend to close, once, in order,
\* whichever of the closes failed, and ends.
C16_CloseBestEffort ==
    /\ mpc.phase = "closing" =>
          ServersOf(EventsOf("close")) = SubSeq(clients, 1, mpc.i - 1)
    /\ mpc.phase = "closed" => ServersOf(EventsOf("close")) = clients
    /\ mpc.phase \notin {"closing", "closed"} => EventsOf("close") = <<>>

\* C16 witness: close() is over; the first and the last close failed, the
\* one in between was made.
C16_Witness ==
    /\ mpc.phase = "closed"
    /\ clients = ConfiguredServers
    /\ EventsOf("close") = <<Event("close", "backendA", "error", <<>>),
                              Event("close", "backendB", "ok", <<>>),
                              Event("close", "backendC", "error", <<>>)>>

\* client.close() has resolved on the connection to the server
ConnectionClosed(server) ==
    \E n \in 1..Len(events) :
        events[n].op = "close" /\ events[n].server = server /\ events[n].result = "ok"

\* the chat() call of slot c hands a tool request to a client in this step
Dispatches(c) ==
    /\ call[c].pc = "AwaitingModel"
    /\ call'[c].pc = "AwaitingToolResult"
    /\ call'[c].pending = "sent"

\* the server that request goes to
DispatchedTo(c) == trace'[c][Len(trace'[c])].server

\* C29: no tool request is sent over a closed connection: once close() has
\* been called on a manager, callTool on it dispatches nothing, and a chat
\* turn in flight or starting while POST /api/config closes the old manager
\* and initializes the new one is served by an open connection.
C29_NoDispatchAfterClose ==
    [][\A c \in Slots :
        Dispatches(c) => /\ mpc.phase \notin {"closing", "closed"}
                         /\ ~ConnectionClosed(DispatchedTo(c))]_vars

(***************************************************************************)
(* Properties: isToolCall / parseToolCall                                  *)
(***************************************************************************)
HasBrace(s) == \E n \in 1..Len(s) : s[n] \in {LB, RB}

\* no key and no string value of v holds a brace character
RECURSIVE BraceFree(_)
BraceFree(v) ==
    /\ ~HasBrace(v.s)
    /\ \A n \in 1..Len(v.kv) : ~HasBrace(v.kv[n][1]) /\ BraceFree(v.kv[n][2])

HasNestedObject(v) == \E n \in 1..Len(v.kv) : v.kv[n][2].t = "object"

RECURSIVE Depth(_)
Depth(v) ==
    IF v.t # "object" THEN 0
    ELSE 1 + (IF v.kv = <<>> THEN 0
              ELSE SetMax({ Depth(v.kv[n][2]) : n \in 1..Len(v.kv) }))

IsDirectiveInput == meta.kind = "directive"
DirectiveText == stringify(Directive(meta.tool, meta.args))

\* isToolCall answered true and parseToolCall returned tool and args of D
RecognisedAsGiven ==
    /\ det.done => det.v = JTrue
    /\ ext.done => /\ ext.ok
                    /\ Get(ext.v, S_TOOL) = JStr(meta.tool)
                    /\ Get(ext.v, S_ARGS) = meta.args

ScanDelimitsDirective ==
    /\ det.done =>
          /\ det.startIndex = Len(meta.pre)
          /\ det.endIndex = Len(meta.pre) + Len(DirectiveText) - 1
          /\ substring(text, det.startIndex, det.endIndex + 1) = DirectiveText
    /\ ext.done => scanEnd(text, findStart(text)) = Len(meta.pre) + Len(DirectiveText) - 1

HasOpeningBrace(s) == \E n \in 1..Len(s) : s[n] = LB

\* C8: on a text without any opening brace isToolCall returns false and
\* parseToolCall throws 'Could not parse tool call'.
C8_NoJsonNoCall ==
    ~HasOpeningBrace(text) =>
        /\ det.done => det.v = JFalse
        /\ ext.done => (~ext.ok /\ ext.err = ERR_PARSE)

\* C8 witness: a text holding both key markers and a closing brace but no
\* opening brace, run through both functions.
C8_Witness ==
    /\ ~HasOpeningBrace(text)
    /\ indexOf(text, Q_ACTION) > 0 /\ indexOf(text, Q_TOOL_CALL) > -1
    /\ indexOf(text, <<RB>>) > -1
    /\ det.done /\ det.v = JFalse
    /\ ext.done /\ ext.err = ERR_PARSE

\* an invocation request: action "tool_call", a non-empty tool name, args present
WellFormedRequest(v) ==
    /\ v.t = "object"
    /\ Get(v, S_ACTION) = JStr(S_TOOL_CALL)
    /\ Get(v, S_TOOL).t = "string" /\ Get(v, S_TOOL).s # <<>>
    /\ Get(v, S_ARGS) # JUndef

\* C19: parseToolCall either throws 'Could not parse tool call' or returns a
\* well-formed invocation request.
C19_RequestOrParseError ==
    ext.done => \/ ~ext.ok /\ ext.err = ERR_PARSE
                \/ ext.ok /\ WellFormedRequest(ext.v)

\* a step in which isToolCall was called
DetectStep == det'.done /\ (~det.done \/ det'.again # det.again)

IsWholeTextDirective ==
    LET whole == JSONparse(trim(text))
    IN  /\ whole.ok
        /\ whole.v.t = "object"
        /\ Get(whole.v, S_ACTION) = JStr(S_TOOL_CALL)
        /\ Get(whole.v, S_TOOL).t = "string" /\ Get(whole.v, S_TOOL).s # <<>>
        /\ Get(whole.v, S_ARGS) # JUndef

\* C22: whenever the trimmed whole text is itself a valid JSON object with
\* action 'tool_call', a non-empty tool and args present, isToolCall returns
\* true, whatever the order of its keys and whatever nested objects precede
\* the action key.
C22_WholeTextDirective ==
    IsWholeTextDirective /\ det.done => det.v = JTrue

\* v is an object with action 'tool_call', a non-empty tool and args present
IsValidDirective(v) ==
    /\ v.t = "object"
    /\ Get(v, S_ACTION) = JStr(S_TOOL_CALL)
    /\ Truthy(Get(v, S_TOOL))
    /\ Get(v, S_ARGS) # JUndef

\* some brace-delimited substring of the text, or the trimmed whole text,
\* parses to a valid directive
ValidSomewhere ==
    \/ LET whole == JSONparse(trim(text)) IN whole.ok /\ IsValidDirective(whole.v)
    \/ \E i \in 0..(Len(text) - 1) :
          /\ At(text, i) = LB
          /\ \E j \in i..(Len(text) - 1) :
                /\ At(text, j) = RB
                /\ LET p == JSONparse(substring(text, i, j + 1))
                   IN  p.ok /\ IsValidDirective(p.v)

\* C23: isToolCall returns a truthy value only if some delimited substring,
\* or the trimmed whole text, parses to an object with action 'tool_call',
\* a non-empty tool and args present; in every other case it returns exactly
\* the boolean false.
C23_TrueOrExactlyFalse ==
    det.done =>
        /\ Truthy(det.v) => ValidSomewhere
        /\ det.v # JFalse => ValidSomewhere

IsTwoDirectiveInput == meta.kind = "two"

\* the index of the leftmost occurrence of any of the three anchors
LeftmostAnchor ==
    LET at == { i \in 0..Len(text) :
                  \/ indexOfFrom(text, ANCHOR_COMPACT, i) = i
                  \/ indexOfFrom(text, ANCHOR_SPACED, i) = i
                  \/ indexOfFrom(text, ANCHOR_PRETTY, i) = i }
    IN  CHOOSE i \in at : \A j \in at : i <= j

\* C24: with several occurrences of a directive anchor, in any spacing, the
\* object that isToolCall classifies and that parseToolCall returns is the
\* one that starts at the leftmost anchor occurrence; a later occurrence is
\* never used.
C24_LeftmostAnchor ==
    IsTwoDirectiveInput =>
        /\ det.done =>
              /\ det.startIndex = LeftmostAnchor
              /\ substring(text, det.startIndex, det.endIndex + 1) = meta.toks[1]
              /\ det.v = JTrue
        /\ ext.done =>
              /\ ext.ok
              /\ ext.v = JSONparse(meta.toks[1]).v

\* the number of occurrences of the character c in s
Count(s, c) == Cardinality({ n \in 1..Len(s) : s[n] = c })

\* the numbers of opening and closing braces differ
Unbalanced == Count(text, LB) # Count(text, RB)

\* C25 as stated: isToolCall never throws, and it returns false for every
\* text whose braces are unbalanced.
C25_Original ==
    det.done =>
        /\ det.err = ERR_NONE
        /\ Unbalanced => det.v = JFalse

\* C25: isToolCall never throws, whatever the text, and it returns false for
\* every text whose braces are unbalanced because one of the two brace
\* characters does not occur in it at all.
C25_NeverThrows ==
    det.done =>
        /\ det.err = ERR_NONE
        /\ Unbalanced /\ (Count(text, LB) = 0 \/ Count(text, RB) = 0) => det.v = JFalse

\* an opening brace before the two markers that is never closed: the scan
\* finds no end, the fallback does not apply, and the result is false
C25_Witness ==
    /\ meta.kind = "tokens" /\ meta.toks = <<<<LB>>, Q_ACTION, Q_TOOL_CALL>>
    /\ det.done /\ det.startIndex = 0 /\ det.endIndex = -1
    /\ det.err = ERR_NONE /\ det.v = JFalse

\* C27: a well-formed directive one of whose string values holds a brace
\* character, with prose before or after it, is recognised: isToolCall
\* returns true and parseToolCall returns that object, the forward scan
\* ending at the directive's own closing brace.
C27_BraceInString ==
    (IsDirectiveInput /\ ~BraceFree(meta.args) /\ (meta.pre # <<>> \/ meta.suf # <<>>))
        => /\ RecognisedAsGiven
           /\ ScanDelimitsDirective

\* the object isToolCall parsed and tested: the delimited substring when it
\* parses, the trimmed whole text otherwise
Validated ==
    LET scanned == IF det.endIndex > -1
                   THEN JSONparse(substring(text, det.startIndex, det.endIndex + 1))
                   ELSE [ok |-> FALSE, v |-> JUndef]
    IN  IF scanned.ok THEN scanned.v ELSE JSONparse(trim(text)).v

\* C28: isToolCall and parseToolCall agree: on every text for which
\* isToolCall returns true, parseToolCall does not fail and returns the very
\* object that isToolCall validated.
C28_DetectionAgreesWithExtraction ==
    (det.done /\ ext.done /\ Truthy(det.v)) => (ext.ok /\ ext.v = Validated)

(***************************************************************************)
(* Properties: reasoning markup                                            *)
(***************************************************************************)
NoMarkup(s) == indexOf(s, THINK_OPEN) = -1 /\ indexOf(s, THINK_CLOSE) = -1

\* the tokens left of a token text by pairing each start marker with the next
\* end marker, left to right; inBlock: the walk is inside a block
RECURSIVE OutsideBlocks(_, _)
OutsideBlocks(toks, inBlock) ==
    IF toks = <<>> THEN <<>>
    ELSE IF inBlock
         THEN OutsideBlocks(Tail(toks), Head(toks) # THINK_CLOSE)
         ELSE IF Head(toks) = THINK_OPEN THEN OutsideBlocks(Tail(toks), TRUE)
         ELSE Head(toks) \o OutsideBlocks(Tail(toks), FALSE)

\* no end marker outside a block and no block left open at the end
RECURSIVE PairedLeftToRight(_, _)
PairedLeftToRight(toks, inBlock) ==
    IF toks = <<>> THEN ~inBlock
    ELSE IF inBlock
         THEN PairedLeftToRight(Tail(toks), Head(toks) # THINK_CLOSE)
         ELSE /\ Head(toks) # THINK_CLOSE
              /\ PairedLeftToRight(Tail(toks), Head(toks) = THINK_OPEN)

IsThinkInput == meta.kind = "think"

\* C10 as stated: whatever the second reply, the cleaned response holds no
\* start marker and no end marker.
C10_Original == (IsThinkInput /\ cln.done) => NoMarkup(cln.v)

\* C10 amended: when the markers pair up left to right (no stray end marker,
\* no block left open) and the text outside the blocks does not itself spell
\* a marker, the cleaned response is that outside text, trimmed: it holds no
\* marker and nothing of what the blocks enclosed.
C10_PairedBlocksStripped ==
    (/\ IsThinkInput /\ cln.done
     /\ PairedLeftToRight(meta.toks, FALSE)
     /\ NoMarkup(OutsideBlocks(meta.toks, FALSE)))
        => /\ cln.v = trim(OutsideBlocks(meta.toks, FALSE))
           /\ NoMarkup(cln.v)

\* C10 witness: a reply with a block enclosing text, followed by text, cleaned.
C10_Witness ==
    /\ IsThinkInput /\ cln.done
    /\ meta.toks = <<THINK_OPEN, <<"r">>, THINK_CLOSE, <<"r">>>>
    /\ cln.v = <<"r">>

====
